---- MODULE Spec2Model ----
(***************************************************************************)
(* A model of convert-docs.py: the Markdown-to-HTML conversion             *)
(* (convert_md_to_html), one action per rewriting pass and one per         *)
(* iteration of the list scan, and the batch loop of main/process_file.    *)
(*                                                                         *)
(* A Python str is modelled as a sequence of one-character strings, so     *)
(* that every regular expression of the source is evaluated character by   *)
(* character, the way re.sub does.                                         *)
(***************************************************************************)
EXTENDS Integers, Sequences, FiniteSets, TLC

VARIABLES md, html, pc, lines, idx, in_list, result,
          mainPc, fileIdx, created, warned

vars == <<md, html, pc, lines, idx, in_list, result,
          mainPc, fileIdx, created, warned>>

convVars == <<md, html, pc, lines, idx, in_list, result>>
mainVars == <<mainPc, fileIdx, created, warned>>

(***************************************************************************)
(* Strings and character classes                                           *)
(***************************************************************************)

\* A string literal as the sequence of its characters.
Chars(s) == [k \in 1 .. Len(s) |-> SubSeq(s, k, k)]

Range(f) == {f[k] : k \in DOMAIN f}

LowerLetters == Range(Chars("abcdefghijklmnopqrstuvwxyz"))
UpperLetters == Range(Chars("ABCDEFGHIJKLMNOPQRSTUVWXYZ"))
Digits == Range(Chars("0123456789"))

\* \w of Python's re: letters, digits and the underscore.
WordChars == LowerLetters \cup UpperLetters \cup Digits \cup {"_"}

\* \s of Python's re.
Whitespace == {" ", "\t", "\n", "\r", "\f"}

\* The backtick, which a TLA+ string cannot hold, is the one-character string
\* named here.
Backtick == "BACKTICK"
Fence == <<Backtick, Backtick, Backtick>>

\* [1-6]
HeadingDigits == Range(Chars("123456"))

\* str.lower() on one character.
LowerChar(c) ==
  IF c \in UpperLetters
  THEN LET u == Chars("ABCDEFGHIJKLMNOPQRSTUVWXYZ")
           l == Chars("abcdefghijklmnopqrstuvwxyz")
       IN  l[CHOOSE k \in 1 .. 26 : u[k] = c]
  ELSE c

\* The literal lit stands in s at position i.
At(s, i, lit) ==
  /\ i >= 1
  /\ i + Len(lit) - 1 <= Len(s)
  /\ \A k \in 1 .. Len(lit) : s[i + k - 1] = lit[k]

\* The end of the longest run of characters of S that starts at i (a greedy
\* [S]*): the first position from i on that holds no character of S.
SkipIn(s, i, S) ==
  IF i > Len(s) THEN i
  ELSE CHOOSE k \in i .. Len(s) + 1 :
         /\ k > Len(s) \/ s[k] \notin S
         /\ \A j \in i .. k - 1 : s[j] \in S

\* The same for a negated class (a greedy [^S]*).
SkipNotIn(s, i, S) ==
  IF i > Len(s) THEN i
  ELSE CHOOSE k \in i .. Len(s) + 1 :
         /\ k > Len(s) \/ s[k] \in S
         /\ \A j \in i .. k - 1 : s[j] \notin S

\* The position of the "\n" that ends the line holding position i, or
\* Len(s) + 1: where a greedy .* stops and where $ matches under MULTILINE.
LineEnd(s, i) == SkipNotIn(s, i, {"\n"})

\* ^ under re.MULTILINE.
LineStart(s, i) == i = 1 \/ s[i - 1] = "\n"

\* The first position from i on where lit stands, or 0.
Find(s, lit, i) ==
  LET last == Len(s) - Len(lit) + 1
  IN  IF \E k \in i .. last : At(s, k, lit)
      THEN CHOOSE k \in i .. last :
             At(s, k, lit) /\ \A j \in i .. k - 1 : ~At(s, j, lit)
      ELSE 0

Contains(s, lit) == Find(s, lit, 1) # 0

\* A failed match attempt.
NoMatch == <<0, <<>>>>

\* The least element of a non-empty set of numbers.
Min(S) == CHOOSE k \in S : \A j \in S : k <= j

\* re.sub(pattern, repl, s). m[k] is the match attempt of the pattern at
\* position k of s: <<end, replacement>> with end the position after the
\* match, or NoMatch (no pattern of the source matches the empty string). The
\* scan goes left to right from position i: the text up to the leftmost
\* position where the pattern matches is copied, the match is replaced, and
\* the scan goes on after the match.
RECURSIVE SubFrom(_, _, _, _)
SubFrom(s, m, hits, i) ==
  LET later == {k \in hits : k >= i}
  IN  IF later = {} THEN SubSeq(s, i, Len(s))
      ELSE LET k == Min(later)
           IN  SubSeq(s, i, k - 1) \o m[k][2] \o SubFrom(s, m, hits, m[k][1])

Sub(s, m) == SubFrom(s, m, {k \in 1 .. Len(s) : m[k][1] # 0}, 1)

\* str.split(sep) for a one-character separator.
Split(s, sep) ==
  LET seps == {k \in 1 .. Len(s) : s[k] = sep}
      n == Cardinality(seps)
      \* the position of the p-th separator; 0 and Len(s) + 1 bound the string
      pos(p) == IF p = 0 THEN 0
                ELSE IF p = n + 1 THEN Len(s) + 1
                ELSE CHOOSE k \in seps : Cardinality({j \in seps : j < k}) = p - 1
  IN  [p \in 1 .. n + 1 |-> SubSeq(s, pos(p - 1) + 1, pos(p) - 1)]

\* sep.join(parts)
RECURSIVE Join(_, _)
Join(parts, sep) ==
  IF Len(parts) = 0 THEN <<>>
  ELSE IF Len(parts) = 1 THEN parts[1]
  ELSE parts[1] \o sep \o Join(Tail(parts), sep)

\* str.strip()
Strip(s) ==
  LET a == SkipIn(s, 1, Whitespace)
      keep == {k \in a .. Len(s) : s[k] \notin Whitespace}
      b == IF keep = {} THEN a - 1
           ELSE CHOOSE k \in keep : \A j \in keep : j <= k
  IN  SubSeq(s, a, b)

\* [x for x in seq if x] : the non-empty elements.
IsNonEmpty(x) == Len(x) > 0
NonEmpty(seq) == SelectSeq(seq, IsNonEmpty)

StripAll(seq) == [k \in 1 .. Len(seq) |-> Strip(seq[k])]

(***************************************************************************)
(* convert_md_to_html: the passes, in the order of the source              *)
(***************************************************************************)

\* r'^# (.+)$' and its three siblings under re.MULTILINE: a whole line that
\* starts with the marker and holds at least one more character.
MatchHeader(s, i, marker, open, mid, close) ==
  LET a == i + Len(marker)
      e == LineEnd(s, a)
      g == SubSeq(s, a, e - 1)
  IN  IF LineStart(s, i) /\ At(s, i, marker) /\ e > a
      THEN <<e, open \o (IF Len(mid) = 0 THEN <<>> ELSE g \o mid) \o g \o close>>
      ELSE NoMatch

MatchH1(s, i) == MatchHeader(s, i, Chars("# "), Chars("<h1>"), <<>>, Chars("</h1>"))
MatchH2(s, i) ==
  MatchHeader(s, i, Chars("## "), Chars("<h2 id=\""), Chars("\">"), Chars("</h2>"))
MatchH3(s, i) == MatchHeader(s, i, Chars("### "), Chars("<h3>"), <<>>, Chars("</h3>"))
MatchH4(s, i) == MatchHeader(s, i, Chars("#### "), Chars("<h4>"), <<>>, Chars("</h4>"))

\* One re.sub of lines 57-60 each.
SubH1(s) == Sub(s, [k \in 1 .. Len(s) |-> MatchH1(s, k)])
SubH2(s) == Sub(s, [k \in 1 .. Len(s) |-> MatchH2(s, k)])
SubH3(s) == Sub(s, [k \in 1 .. Len(s) |-> MatchH3(s, k)])
SubH4(s) == Sub(s, [k \in 1 .. Len(s) |-> MatchH4(s, k)])

Headers(s) == SubH4(SubH3(SubH2(SubH1(s))))

\* re.sub(r'[^\w\s-]', '', text.lower())
IsIdChar(c) == c \in WordChars \cup Whitespace \cup {"-"}
LowerAndFilter(text) ==
  SelectSeq([k \in 1 .. Len(text) |-> LowerChar(text[k])], IsIdChar)

\* .replace(' ', '-')
ReplaceSpaces(text) == [k \in 1 .. Len(text) |-> IF text[k] = " " THEN "-" ELSE text[k]]

\* id_text of make_id
IdText(text) == ReplaceSpaces(LowerAndFilter(text))

\* make_id(match): the heading rebuilt from group 1.
make_id(text) ==
  Chars("<h2 id=\"") \o IdText(text) \o Chars("\">") \o text \o Chars("</h2>")

\* r'<h2 id="([^"]+)">([^<]+)</h2>'
MatchH2Id(s, i) ==
  LET a == i + 8
      b == SkipNotIn(s, a, {"\""})
      c == b + 2
      d == SkipNotIn(s, c, {"<"})
  IN  IF /\ At(s, i, Chars("<h2 id=\""))
         /\ b > a
         /\ At(s, b, Chars("\">"))
         /\ d > c
         /\ At(s, d, Chars("</h2>"))
      THEN <<d + 5, make_id(SubSeq(s, a, b - 1))>>
      ELSE NoMatch

MakeIds(s) == Sub(s, [k \in 1 .. Len(s) |-> MatchH2Id(s, k)])

\* The code-block pattern under re.DOTALL: three backticks, an optional \w+ tag,
\* a newline, the shortest text (.*?) up to the next three backticks.
MatchCodeBlock(s, i) ==
  LET a == i + 3
      b == SkipIn(s, a, WordChars)
      c == b + 1
      d == Find(s, Fence, c)
  IN  IF /\ At(s, i, Fence)
         /\ At(s, b, <<"\n">>)
         /\ d # 0
      THEN <<d + 3, Chars("<pre><code>") \o SubSeq(s, c, d - 1) \o Chars("</code></pre>")>>
      ELSE NoMatch

CodeBlocks(s) == Sub(s, [k \in 1 .. Len(s) |-> MatchCodeBlock(s, k)])

\* The inline-code pattern: a backtick, one or more characters other than a
\* backtick, a backtick.
MatchInlineCode(s, i) ==
  LET a == i + 1
      b == SkipNotIn(s, a, {Backtick})
  IN  IF At(s, i, <<Backtick>>) /\ b > a /\ b <= Len(s)
      THEN <<b + 1, Chars("<code>") \o SubSeq(s, a, b - 1) \o Chars("</code>")>>
      ELSE NoMatch

InlineCode(s) == Sub(s, [k \in 1 .. Len(s) |-> MatchInlineCode(s, k)])

\* r'\*\*(.+?)\*\*' and r'\*(.+?)\*': the marker, the shortest run of at least
\* one character without a newline, the marker.
MatchEmphasis(s, i, marker, open, close) ==
  LET a == i + Len(marker)
      e == Find(s, marker, a + 1)
  IN  IF At(s, i, marker) /\ e # 0 /\ e < LineEnd(s, a)
      THEN <<e + Len(marker), open \o SubSeq(s, a, e - 1) \o close>>
      ELSE NoMatch

MatchBold(s, i) == MatchEmphasis(s, i, Chars("**"), Chars("<strong>"), Chars("</strong>"))
MatchItalic(s, i) == MatchEmphasis(s, i, Chars("*"), Chars("<em>"), Chars("</em>"))

Bold(s) == Sub(s, [k \in 1 .. Len(s) |-> MatchBold(s, k)])
Italic(s) == Sub(s, [k \in 1 .. Len(s) |-> MatchItalic(s, k)])

\* r'\[([^\]]+)\]\(([^)]+)\)'
MatchLink(s, i) ==
  LET a == i + 1
      b == SkipNotIn(s, a, {"]"})
      c == b + 2
      d == SkipNotIn(s, c, {")"})
  IN  IF /\ At(s, i, <<"[">>)
         /\ b > a
         /\ At(s, b, Chars("]("))
         /\ d > c
         /\ d <= Len(s)
      THEN <<d + 1, Chars("<a href=\"") \o SubSeq(s, c, d - 1) \o Chars("\">")
                     \o SubSeq(s, a, b - 1) \o Chars("</a>")>>
      ELSE NoMatch

Links(s) == Sub(s, [k \in 1 .. Len(s) |-> MatchLink(s, k)])


(***************************************************************************)
(* The list scan (one pass over html.split('\n'))                          *)
(***************************************************************************)

UL_CHECKLIST == Chars("<ul class=\"checklist\">")
UL_OPEN == Chars("<ul>")
OL_OPEN == Chars("<ol>")
UL_CLOSE == Chars("</ul>")
OL_CLOSE == Chars("</ol>")

\* re.match(r'^- \[ \]', line) and re.match(r'^- \[x\]', line)
IsUnchecked(line) == At(line, 1, Chars("- [ ]"))
IsChecked(line) == At(line, 1, Chars("- [x]"))

\* A line (it holds no newline) matches r'^prefix(.+)$': it starts with the
\* prefix and at least one character follows.
HasItemText(line, prefix) == At(line, 1, prefix) /\ Len(line) > Len(prefix)

\* re.match(r'^- (.+)$', line)
IsBullet(line) == HasItemText(line, Chars("- "))

\* The end of r'^\d+\. ' in the line, or 0.
OrderedPrefixEnd(line) ==
  LET d == SkipIn(line, 1, Digits)
  IN  IF d > 1 /\ At(line, d, Chars(". ")) THEN d + 2 ELSE 0

\* re.match(r'^\d+\. (.+)$', line)
IsOrdered(line) ==
  OrderedPrefixEnd(line) # 0 /\ Len(line) >= OrderedPrefixEnd(line)

\* The checklist item of lines 95 and 101; the line as it is when the item
\* pattern, which wants a space and a text after the box, does not match.
CheckItem(line, prefix, checked) ==
  IF HasItemText(line, prefix)
  THEN LET text == SubSeq(line, Len(prefix) + 1, Len(line))
       IN  Chars("<li><input type=\"checkbox\" id=\"item-") \o text
             \o (IF checked THEN Chars("\" checked>") ELSE Chars("\">"))
             \o Chars("<label for=\"item-") \o text \o Chars("\">") \o text
             \o Chars("</label></li>")
  ELSE line

\* <li>\1</li> of lines 108 and 115
ListItem(line, from) ==
  Chars("<li>") \o SubSeq(line, from, Len(line)) \o Chars("</li>")

\* The value in_list takes when a container opens.
OpenState(tag) == IF tag = OL_OPEN THEN "ol" ELSE "True"

\* The closing tag chosen without regard to the kind that is open.
CloseTagAlwaysUl(state) == UL_CLOSE

\* '</ol>' if in_list == 'ol' else '</ul>'
CloseTag(state) == IF state = "ol" THEN OL_CLOSE ELSE UL_CLOSE

\* if not in_list: result.append(tag); in_list = ... ; result.append(item)
AppendItem(st, tag, item) ==
  IF st.in_list = "False"
  THEN [in_list |-> OpenState(tag), result |-> st.result \o <<tag, item>>]
  ELSE [in_list |-> st.in_list, result |-> Append(st.result, item)]

\* else: if in_list: result.append(close); in_list = False; result.append(line)
AppendOther(st, line) ==
  IF st.in_list # "False"
  THEN [in_list |-> "False", result |-> st.result \o <<CloseTag(st.in_list), line>>]
  ELSE [in_list |-> st.in_list, result |-> Append(st.result, line)]

\* The body of the for loop, lines 89-121.
ScanLine(st, line) ==
  IF IsUnchecked(line)
  THEN AppendItem(st, UL_CHECKLIST, CheckItem(line, Chars("- [ ] "), FALSE))
  ELSE IF IsChecked(line)
  THEN AppendItem(st, UL_CHECKLIST, CheckItem(line, Chars("- [x] "), TRUE))
  ELSE IF IsBullet(line)
  THEN AppendItem(st, UL_OPEN, ListItem(line, 3))
  ELSE IF IsOrdered(line)
  THEN AppendItem(st, OL_OPEN, ListItem(line, OrderedPrefixEnd(line)))
  ELSE AppendOther(st, line)

\* if in_list: result.append(close)   (after the loop)
CloseAtEnd(st) ==
  IF st.in_list # "False" THEN Append(st.result, CloseTag(st.in_list)) ELSE st.result

(***************************************************************************)
(* Paragraphs and their clean-up                                           *)
(***************************************************************************)

P_OPEN == Chars("<p>")
P_CLOSE == Chars("</p>")

\* r'\n\n+' -> r'\n</p>\n<p>\n'
MatchBlankLines(s, i) ==
  LET e == SkipIn(s, i, {"\n"})
  IN  IF e >= i + 2 THEN <<e, Chars("\n</p>\n<p>\n")>> ELSE NoMatch

\* The wrapping with the text stripped first.
ParagraphsStripped(s) ==
  P_OPEN \o Strip(Sub(s, [k \in 1 .. Len(s) |-> MatchBlankLines(s, k)])) \o P_CLOSE

Paragraphs(s) == P_OPEN \o Sub(s, [k \in 1 .. Len(s) |-> MatchBlankLines(s, k)]) \o P_CLOSE

\* r'<p>\s*</p>' -> ''
MatchEmptyParagraph(s, i) ==
  LET b == SkipIn(s, i + 3, Whitespace)
  IN  IF At(s, i, P_OPEN) /\ At(s, b, P_CLOSE) THEN <<b + 4, <<>>>> ELSE NoMatch

\* r'<p>(\s*<pre)' -> r'\1', and the same before <ul and <ol
MatchOpenBefore(s, i, block) ==
  LET b == SkipIn(s, i + 3, Whitespace)
  IN  IF At(s, i, P_OPEN) /\ At(s, b, block)
      THEN <<b + Len(block), SubSeq(s, i + 3, b + Len(block) - 1)>>
      ELSE NoMatch

\* r'(</pre>)\s*</p>' -> r'\1', and the same after </ul> and </ol>
MatchCloseAfter(s, i, block) ==
  LET b == SkipIn(s, i + Len(block), Whitespace)
  IN  IF At(s, i, block) /\ At(s, b, P_CLOSE) THEN <<b + 4, block>> ELSE NoMatch

\* r'<p>(\s*<h[1-6])' -> r'\1'
MatchOpenBeforeHeading(s, i) ==
  LET b == SkipIn(s, i + 3, Whitespace)
  IN  IF /\ At(s, i, P_OPEN)
         /\ At(s, b, Chars("<h"))
         /\ b + 2 <= Len(s)
         /\ s[b + 2] \in HeadingDigits
      THEN <<b + 3, SubSeq(s, i + 3, b + 2)>>
      ELSE NoMatch

\* r'(</h[1-6]>)\s*</p>' -> r'\1'
MatchCloseAfterHeading(s, i) ==
  LET b == SkipIn(s, i + 5, Whitespace)
  IN  IF /\ At(s, i, Chars("</h"))
         /\ i + 4 <= Len(s)
         /\ s[i + 3] \in HeadingDigits
         /\ s[i + 4] = ">"
         /\ At(s, b, P_CLOSE)
      THEN <<b + 4, SubSeq(s, i, i + 4)>>
      ELSE NoMatch

MatchOpenBeforePre(s, i) == MatchOpenBefore(s, i, Chars("<pre"))
MatchCloseAfterPre(s, i) == MatchCloseAfter(s, i, Chars("</pre>"))
MatchOpenBeforeUl(s, i) == MatchOpenBefore(s, i, Chars("<ul"))
MatchCloseAfterUl(s, i) == MatchCloseAfter(s, i, UL_CLOSE)
MatchOpenBeforeOl(s, i) == MatchOpenBefore(s, i, Chars("<ol"))
MatchCloseAfterOl(s, i) == MatchCloseAfter(s, i, OL_CLOSE)

\* One re.sub of lines 133-141 each.
StripEmptyParagraph(s) == Sub(s, [k \in 1 .. Len(s) |-> MatchEmptyParagraph(s, k)])
StripOpenBeforeHeading(s) == Sub(s, [k \in 1 .. Len(s) |-> MatchOpenBeforeHeading(s, k)])
StripCloseAfterHeading(s) == Sub(s, [k \in 1 .. Len(s) |-> MatchCloseAfterHeading(s, k)])
StripOpenBeforePre(s) == Sub(s, [k \in 1 .. Len(s) |-> MatchOpenBeforePre(s, k)])
StripCloseAfterPre(s) == Sub(s, [k \in 1 .. Len(s) |-> MatchCloseAfterPre(s, k)])
StripOpenBeforeUl(s) == Sub(s, [k \in 1 .. Len(s) |-> MatchOpenBeforeUl(s, k)])
StripCloseAfterUl(s) == Sub(s, [k \in 1 .. Len(s) |-> MatchCloseAfterUl(s, k)])
StripOpenBeforeOl(s) == Sub(s, [k \in 1 .. Len(s) |-> MatchOpenBeforeOl(s, k)])
StripCloseAfterOl(s) == Sub(s, [k \in 1 .. Len(s) |-> MatchCloseAfterOl(s, k)])

\* Lines 133-141, nine substitutions in this order.
CleanUp(s) ==
  StripCloseAfterOl(StripOpenBeforeOl(StripCloseAfterUl(StripOpenBeforeUl(
    StripCloseAfterPre(StripOpenBeforePre(StripCloseAfterHeading(
      StripOpenBeforeHeading(StripEmptyParagraph(s)))))))))

(***************************************************************************)
(* Status badges                                                           *)
(***************************************************************************)

\* The four glyphs, which a TLA+ string cannot hold, by their code points; the
\* warning sign of the source is followed by a variation selector.
CheckMark == "U+2705"
CrossMark == "U+274C"
WarningSign == "U+26A0"
VariationSelector == "U+FE0F"
Arrows == "U+1F504"

MatchBadge(s, i, glyph, class) ==
  IF At(s, i, glyph)
  THEN <<i + Len(glyph),
         Chars("<span class=\"badge badge-") \o class \o Chars("\">") \o glyph
           \o Chars("</span>")>>
  ELSE NoMatch

MatchSuccess(s, i) == MatchBadge(s, i, <<CheckMark>>, Chars("success"))
MatchDanger(s, i) == MatchBadge(s, i, <<CrossMark>>, Chars("danger"))
MatchWarning(s, i) ==
  MatchBadge(s, i, <<WarningSign, VariationSelector>>, Chars("warning"))
MatchInfo(s, i) == MatchBadge(s, i, <<Arrows>>, Chars("info"))

\* One re.sub of lines 144-147 each.
BadgeSuccess(s) == Sub(s, [k \in 1 .. Len(s) |-> MatchSuccess(s, k)])
BadgeDanger(s) == Sub(s, [k \in 1 .. Len(s) |-> MatchDanger(s, k)])
BadgeWarning(s) == Sub(s, [k \in 1 .. Len(s) |-> MatchWarning(s, k)])
BadgeInfo(s) == Sub(s, [k \in 1 .. Len(s) |-> MatchInfo(s, k)])

StatusBadges(s) == BadgeInfo(BadgeWarning(BadgeDanger(BadgeSuccess(s))))

(***************************************************************************)
(* Tables                                                                  *)
(***************************************************************************)

\* [c.strip() for c in line.split('|') if c.strip()]
Cells(line) == NonEmpty(StripAll(Split(line, "|")))

\* for h in headers: table_html += f'<th>{h}</th>\n'
RECURSIVE CellsHtml(_, _, _)
CellsHtml(cells, open, close) ==
  IF Len(cells) = 0 THEN <<>>
  ELSE open \o Head(cells) \o close \o <<"\n">> \o CellsHtml(Tail(cells), open, close)

\* for row in rows: ... ; a line without a cell adds no row (if cells:).
RECURSIVE RowsHtml(_)
RowsHtml(ls) ==
  IF Len(ls) = 0 THEN <<>>
  ELSE (IF Len(Cells(Head(ls))) = 0 THEN <<>>
        ELSE Chars("<tr>\n") \o CellsHtml(Cells(Head(ls)), Chars("<td>"), Chars("</td>"))
               \o Chars("</tr>\n"))
       \o RowsHtml(Tail(ls))

\* The rows convert_table reads: lines[2:]
BodyLines(ls) == SubSeq(ls, 3, Len(ls))

convert_table(text) ==
  LET ls == NonEmpty(StripAll(Split(text, "\n")))
  IN  IF Len(ls) < 2 THEN text
      ELSE Chars("<table>\n<thead>\n<tr>\n")
             \o CellsHtml(Cells(ls[1]), Chars("<th>"), Chars("</th>"))
             \o Chars("</tr>\n</thead>\n<tbody>\n")
             \o RowsHtml(BodyLines(ls))
             \o Chars("</tbody>\n</table>")

\* One repetition of (\|.+\|\n) at position j: a line that starts with a pipe,
\* ends with a pipe, holds at least one character between them and is
\* followed by a newline. The position after the newline, or 0.
TableRowEnd(s, j) ==
  LET e == LineEnd(s, j)
  IN  IF /\ j <= Len(s)
         /\ s[j] = "|"
         /\ e <= Len(s)
         /\ e - 1 >= j + 2
         /\ s[e - 1] = "|"
      THEN e + 1
      ELSE 0

\* The greedy repetition: after as many rows as follow each other.
RECURSIVE TableRunEnd(_, _)
TableRunEnd(s, j) ==
  IF TableRowEnd(s, j) = 0 THEN j ELSE TableRunEnd(s, TableRowEnd(s, j))

\* table_pattern = r'\n(\|.+\|\n)+' with its replacement,
\* '\n' + convert_table(m.group(0)) + '\n'
MatchTable(s, i) ==
  LET e == TableRunEnd(s, i + 1)
  IN  IF s[i] = "\n" /\ e > i + 1
      THEN <<e, <<"\n">> \o convert_table(SubSeq(s, i, e - 1)) \o <<"\n">>>>
      ELSE NoMatch

Tables(s) == Sub(s, [k \in 1 .. Len(s) |-> MatchTable(s, k)])

(***************************************************************************)
(* Inputs                                                                  *)
(***************************************************************************)

MaxLines == 3
MaxListLines == 4
MaxTableLines == 5
MaxProseLen == 5

\* The documents of at most n lines, each line drawn from L.
Documents(L, n) ==
  {Join(ls, <<"\n">>) : ls \in UNION {[1 .. k -> L] : k \in 1 .. n}}

\* The strings of at most n characters of A.
Strings(A, n) == UNION {[1 .. k -> A] : k \in 0 .. n}

MixedLines ==
  { Chars("- [ ] a"), Chars("- b"), Chars("1. c"), Fence, Chars("# a"),
    Chars("*a*"), Chars("## a  B"), Chars("x"), <<>> }

ListLines ==
  { Chars("- [ ] a"), Chars("- [x] a"), Chars("- [ ]"), Chars("- b"),
    Chars("1. c"), Chars("x"), <<>> }

TableLines ==
  { Chars("|A|B|"), Chars("|-|-|"), Chars("|1|2|"), Chars("x"), <<>> }

ProseChars == {"a", " ", "\n", "*", "-"}

\* What the files of the batch may hold.
FileContents == {Chars("# T\n\nx"), Chars("x"), <<>>}

(***************************************************************************)
(* convert_md_to_html as a state machine: one action per pass              *)
(***************************************************************************)

InitConv(inputs) ==
  /\ md \in inputs
  /\ html = md
  /\ pc = "headers"
  /\ lines = <<>>
  /\ idx = 0
  /\ in_list = "False"
  /\ result = <<>>
  /\ mainPc = "idle"
  /\ fileIdx = 0
  /\ created = 0
  /\ warned = 0

Init == InitConv(Documents(MixedLines, MaxLines))
InitList == InitConv(Documents(ListLines, MaxListLines))
InitTable == InitConv(Documents(TableLines, MaxTableLines))
InitProse == InitConv(Strings(ProseChars, MaxProseLen))

\* Lines 57-60: the four header substitutions.
DoHeaders ==
  /\ pc = "headers"
  /\ html' = Headers(html)
  /\ pc' = "make_id"
  /\ UNCHANGED <<md, lines, idx, in_list, result>>
  /\ UNCHANGED mainVars

\* Line 67: the ids of the level-2 headings.
DoMakeIds ==
  /\ pc = "make_id"
  /\ html' = MakeIds(html)
  /\ pc' = "code_blocks"
  /\ UNCHANGED <<md, lines, idx, in_list, result>>
  /\ UNCHANGED mainVars

\* Line 70: fenced code blocks.
DoCodeBlocks ==
  /\ pc = "code_blocks"
  /\ html' = CodeBlocks(html)
  /\ pc' = "inline_code"
  /\ UNCHANGED <<md, lines, idx, in_list, result>>
  /\ UNCHANGED mainVars

\* Line 73: inline code.
DoInlineCode ==
  /\ pc = "inline_code"
  /\ html' = InlineCode(html)
  /\ pc' = "bold"
  /\ UNCHANGED <<md, lines, idx, in_list, result>>
  /\ UNCHANGED mainVars

\* Line 76: bold.
DoBold ==
  /\ pc = "bold"
  /\ html' = Bold(html)
  /\ pc' = "italic"
  /\ UNCHANGED <<md, lines, idx, in_list, result>>
  /\ UNCHANGED mainVars

\* Line 79: italic.
DoItalic ==
  /\ pc = "italic"
  /\ html' = Italic(html)
  /\ pc' = "links"
  /\ UNCHANGED <<md, lines, idx, in_list, result>>
  /\ UNCHANGED mainVars

\* Line 82: links.
DoLinks ==
  /\ pc = "links"
  /\ html' = Links(html)
  /\ pc' = "split"
  /\ UNCHANGED <<md, lines, idx, in_list, result>>
  /\ UNCHANGED mainVars

\* lines = html.split('\n'); in_list = False; result = []
DoSplit ==
  /\ pc = "split"
  /\ lines' = Split(html, "\n")
  /\ in_list' = "False"
  /\ result' = <<>>
  /\ idx' = 0
  /\ pc' = "scan"
  /\ UNCHANGED <<md, html>>
  /\ UNCHANGED mainVars

\* One iteration of: for i, line in enumerate(lines)
DoScanLine ==
  /\ pc = "scan"
  /\ idx < Len(lines)
  /\ LET st == ScanLine([in_list |-> in_list, result |-> result], lines[idx + 1])
     IN  /\ in_list' = st.in_list
         /\ result' = st.result
  /\ idx' = idx + 1
  /\ UNCHANGED <<md, html, pc, lines>>
  /\ UNCHANGED mainVars

\* After the loop: close what is open; html = '\n'.join(result)
DoJoin ==
  /\ pc = "scan"
  /\ idx = Len(lines)
  /\ result' = CloseAtEnd([in_list |-> in_list, result |-> result])
  /\ html' = Join(result', <<"\n">>)
  /\ pc' = "paragraphs"
  /\ UNCHANGED <<md, lines, idx, in_list>>
  /\ UNCHANGED mainVars

\* Lines 129-130: paragraphs.
DoParagraphs ==
  /\ pc = "paragraphs"
  /\ html' = Paragraphs(html)
  /\ pc' = "clean_up"
  /\ UNCHANGED <<md, lines, idx, in_list, result>>
  /\ UNCHANGED mainVars

\* Lines 133-141: the clean-up of the paragraph tags.
DoCleanUp ==
  /\ pc = "clean_up"
  /\ html' = CleanUp(html)
  /\ pc' = "badges"
  /\ UNCHANGED <<md, lines, idx, in_list, result>>
  /\ UNCHANGED mainVars

\* Lines 144-147: status badges.
DoStatusBadges ==
  /\ pc = "badges"
  /\ html' = StatusBadges(html)
  /\ pc' = "tables"
  /\ UNCHANGED <<md, lines, idx, in_list, result>>
  /\ UNCHANGED mainVars

\* Lines 182-185: tables; the function returns html.
DoTables ==
  /\ pc = "tables"
  /\ html' = Tables(html)
  /\ pc' = "done"
  /\ UNCHANGED <<md, lines, idx, in_list, result>>
  /\ UNCHANGED mainVars

Next ==
  \/ DoHeaders
  \/ DoMakeIds
  \/ DoCodeBlocks
  \/ DoInlineCode
  \/ DoBold
  \/ DoItalic
  \/ DoLinks
  \/ DoSplit
  \/ DoScanLine
  \/ DoJoin
  \/ DoParagraphs
  \/ DoCleanUp
  \/ DoStatusBadges
  \/ DoTables

Spec == Init /\ [][Next]_vars
SpecList == InitList /\ [][Next]_vars
SpecTable == InitTable /\ [][Next]_vars
SpecProse == InitProse /\ [][Next]_vars

(***************************************************************************)
(* main and process_file: the batch over the fixed file list               *)
(***************************************************************************)

\* len(files)
NumFiles == 16

InitMain ==
  /\ mainPc = "loop"
  /\ fileIdx = 0
  /\ created = 0
  /\ warned = 0
  /\ md = <<>>
  /\ html = <<>>
  /\ pc = "idle"
  /\ lines = <<>>
  /\ idx = 0
  /\ in_list = "False"
  /\ result = <<>>

\* The file is missing: print(f"Warning: File not found: {md_file}")
MainWarn ==
  /\ mainPc = "loop"
  /\ fileIdx < NumFiles
  /\ warned' = warned + 1
  /\ fileIdx' = fileIdx + 1
  /\ UNCHANGED <<mainPc, created>>
  /\ UNCHANGED convVars

\* The file exists and process_file reads it (lines 192-193); the conversion
\* of line 196 follows, pass by pass.
MainRead ==
  /\ mainPc = "loop"
  /\ fileIdx < NumFiles
  /\ md' \in FileContents
  /\ html' = md'
  /\ pc' = "headers"
  /\ lines' = <<>>
  /\ idx' = 0
  /\ in_list' = "False"
  /\ result' = <<>>
  /\ mainPc' = "process_file"
  /\ UNCHANGED <<fileIdx, created, warned>>

\* Lines 245-260: the output directory is made and the page is written;
\* process_file returns and the loop goes on to the next file.
MainWrite ==
  /\ mainPc = "process_file"
  /\ pc = "done"
  /\ created' = created + 1
  /\ fileIdx' = fileIdx + 1
  /\ mainPc' = "loop"
  /\ pc' = "idle"
  /\ UNCHANGED <<md, html, lines, idx, in_list, result, warned>>

\* open/read of lines 192-193, or mkdir and open/write of lines 245-258,
\* raises. Neither process_file nor main has a try: the exception leaves the
\* for loop and main.
MainRaise ==
  /\ \/ mainPc = "loop" /\ fileIdx < NumFiles
     \/ mainPc = "process_file" /\ pc = "done"
  /\ mainPc' = "raised"
  /\ UNCHANGED <<fileIdx, created, warned>>
  /\ UNCHANGED convVars

\* After the loop: print("Conversion complete!")
MainComplete ==
  /\ mainPc = "loop"
  /\ fileIdx = NumFiles
  /\ mainPc' = "done"
  /\ UNCHANGED <<fileIdx, created, warned>>
  /\ UNCHANGED convVars

MainNext ==
  \/ MainWarn
  \/ MainRead
  \/ MainWrite
  \/ MainRaise
  \/ MainComplete
  \/ Next

SpecMain == InitMain /\ [][MainNext]_vars


(***************************************************************************)
(* Properties                                                              *)
(***************************************************************************)

IsOpenTag(l) == l \in {UL_OPEN, UL_CHECKLIST, OL_OPEN}
IsCloseTag(l) == l \in {UL_CLOSE, OL_CLOSE}

\* The closing tag of the element an opening tag opens.
ClosingOf(l) == IF l = OL_OPEN THEN OL_CLOSE ELSE UL_CLOSE

\* The kind of a line in the list scan.
ListKind(line) ==
  IF IsUnchecked(line) \/ IsChecked(line) THEN "checklist"
  ELSE IF IsBullet(line) THEN "bullet"
  ELSE IF IsOrdered(line) THEN "ordered"
  ELSE "other"

OpenTagOfKind(kind) ==
  IF kind = "checklist" THEN UL_CHECKLIST
  ELSE IF kind = "bullet" THEN UL_OPEN
  ELSE OL_OPEN

CloseTagOfKind(kind) == IF kind = "ordered" THEN OL_CLOSE ELSE UL_CLOSE

\* Containers open after the first k lines of r.
Depth(r, k) ==
  Cardinality({j \in 1 .. k : IsOpenTag(r[j])})
    - Cardinality({j \in 1 .. k : IsCloseTag(r[j])})

\* The last opening tag of r before position k.
LastOpenBefore(r, k) ==
  LET opens == {j \in 1 .. k - 1 : IsOpenTag(r[j])}
  IN  CHOOSE j \in opens : \A o \in opens : o <= j

\* C1: when two adjacent lines are list lines of different kinds, the scan
\* emits, between the two items, the closing tag of the open container and
\* then the opening tag of a container of the new kind.
C1_KindChangeClosesAndReopens ==
  ( /\ pc = "scan"
    /\ idx >= 2
    /\ ListKind(lines[idx - 1]) # "other"
    /\ ListKind(lines[idx]) # "other"
    /\ ListKind(lines[idx - 1]) # ListKind(lines[idx]) )
  => /\ Len(result) >= 3
     /\ result[Len(result) - 2] = CloseTagOfKind(ListKind(lines[idx - 1]))
     /\ result[Len(result) - 1] = OpenTagOfKind(ListKind(lines[idx]))

\* C2: at every point of the list scan at most one container is open and no
\* closing tag is emitted while none is open; a closing tag is that of the
\* element opened last; a container is open exactly while the line scanned
\* last is a list line, so it is closed at the first non-list line; and after
\* the end of the input none is open.
C2_ContainersClosedOnceAndMatched ==
  /\ \A k \in 0 .. Len(result) : Depth(result, k) \in {0, 1}
  /\ \A k \in 1 .. Len(result) :
       IsCloseTag(result[k]) =>
         result[k] = ClosingOf(result[LastOpenBefore(result, k)])
  /\ pc = "scan" =>
       /\ (in_list # "False") <=> (Depth(result, Len(result)) = 1)
       /\ (in_list # "False") <=> (idx >= 1 /\ ListKind(lines[idx]) # "other")
  /\ pc \in {"paragraphs", "clean_up", "badges", "tables", "done"} =>
       Depth(result, Len(result)) = 0

\* An ordered list closed by a prose line and an unordered list closed by the
\* end of the input.
C2_Witness ==
  /\ pc = "done"
  /\ Len(result) >= 7
  /\ \E k \in 1 .. Len(result) - 1 :
       result[k] = OL_CLOSE /\ ~IsOpenTag(result[k + 1])
  /\ result[Len(result)] = UL_CLOSE

\* The first terminated fenced block of the input, as <<end, replacement>>.
FirstCodeBlock(s) ==
  LET hits == {k \in 1 .. Len(s) : MatchCodeBlock(s, k)[1] # 0}
  IN  IF hits = {} THEN NoMatch ELSE MatchCodeBlock(s, Min(hits))

\* C3: the interior of a terminated fenced code block of the input stands
\* unchanged in the output, inside one <pre><code> ... </code></pre> pair.
C3_FencedInteriorVerbatim ==
  (pc = "done" /\ FirstCodeBlock(md)[1] # 0)
  => Contains(html, FirstCodeBlock(md)[2])

\* The positions of s where a paragraph tag stands.
PTags(s) == {k \in 1 .. Len(s) : At(s, k, P_OPEN) \/ At(s, k, P_CLOSE)}

\* The positions of s where a block element opens.
BlockOpens(s) ==
  {k \in 1 .. Len(s) :
     \/ At(s, k, Chars("<h")) /\ k + 2 <= Len(s) /\ s[k + 2] \in HeadingDigits
     \/ At(s, k, Chars("<pre"))
     \/ At(s, k, Chars("<ul"))
     \/ At(s, k, Chars("<ol"))
     \/ At(s, k, Chars("<table"))}

\* Position k lies between a <p> and its </p>.
InsideParagraph(s, k) ==
  LET before == {j \in PTags(s) : j < k}
      after == {j \in PTags(s) : j > k}
  IN  /\ before # {}
      /\ after # {}
      /\ At(s, CHOOSE j \in before : \A o \in before : o <= j, P_OPEN)
      /\ At(s, Min(after), P_CLOSE)

\* C4: in the fragment returned, no block element lies between a <p> and its
\* </p>.
C4_NoBlockInsideParagraph ==
  pc = "done" => \A k \in BlockOpens(html) : ~InsideParagraph(html, k)

\* A pipe-delimited line: one the row pattern of the table pass accepts.
IsPipeLine(line) ==
  Len(line) >= 3 /\ line[1] = "|" /\ line[Len(line)] = "|"

\* The maximal runs of at least two pipe-delimited lines, as <<first, last>>.
PipeRuns(ls) ==
  {r \in (1 .. Len(ls)) \X (1 .. Len(ls)) :
     /\ r[2] >= r[1] + 1
     /\ \A k \in r[1] .. r[2] : IsPipeLine(ls[k])
     /\ r[1] = 1 \/ ~IsPipeLine(ls[r[1] - 1])
     /\ r[2] = Len(ls) \/ ~IsPipeLine(ls[r[2] + 1])}

\* The table of a run: the cells of its first line as the header, its second
\* line dropped, one body row for each line from the third on.
TableOfRun(run) ==
  Chars("<table>\n<thead>\n<tr>\n")
    \o CellsHtml(Cells(run[1]), Chars("<th>"), Chars("</th>"))
    \o Chars("</tr>\n</thead>\n<tbody>\n")
    \o RowsHtml(SubSeq(run, 3, Len(run)))
    \o Chars("</tbody>\n</table>")

\* C5: every maximal run of two or more pipe-delimited lines of the input,
\* wherever it stands, is emitted as the table of that run.
C5_EveryPipeRunIsATable ==
  pc = "done" =>
    \A r \in PipeRuns(Split(md, "\n")) :
      Contains(html, TableOfRun(SubSeq(Split(md, "\n"), r[1], r[2])))

\* C6: when the input holds a fence and no terminated fenced block, the fence
\* marker and all the text after it stand unconverted in the output.
C6_UnterminatedFenceStaysLiteral ==
  (pc = "done" /\ Contains(md, Fence) /\ FirstCodeBlock(md)[1] = 0)
  => Contains(html, SubSeq(md, Find(md, Fence, 1), Len(md)))

\* The lines of a level-2 heading, a fence, a list or a table.
IsHeadingLine(line) ==
  \E marker \in {Chars("# "), Chars("## "), Chars("### "), Chars("#### ")} :
    HasItemText(line, marker)

HasBlockMarkup(s) ==
  \/ Contains(s, Fence)
  \/ \E k \in 1 .. Len(Split(s, "\n")) :
       LET line == Split(s, "\n")[k]
       IN  IsHeadingLine(line) \/ ListKind(line) # "other" \/ IsPipeLine(line)

\* The characters the inline, link, badge and clean-up patterns start with.
MarkupChars ==
  {Backtick, "*", "[", "<", CheckMark, CrossMark, WarningSign, Arrows}

HasMarkupChar(s) == \E k \in 1 .. Len(s) : s[k] \in MarkupChars
HasBlankLine(s) == Contains(s, Chars("\n\n"))
IsBlank(s) == \A k \in 1 .. Len(s) : s[k] \in Whitespace

IsKept(c) == c # ""
CollapseWhitespace(text) ==
  SelectSeq([k \in 1 .. Len(text) |->
               IF text[k] \notin Whitespace THEN text[k]
               ELSE IF k > 1 /\ text[k - 1] \in Whitespace THEN ""
               ELSE "-"],
            IsKept)

\* The id the specification gives a level-2 heading.
Slug(text) == CollapseWhitespace(LowerAndFilter(text))

\* C8: the <h2> of every level-2 heading line carries the id made of its text
\* lowercased, stripped of the characters that are no word character,
\* whitespace or hyphen, with every run of whitespace replaced by one hyphen.
C8_HeadingIdIsSlug ==
  pc = "code_blocks" =>
    \A k \in 1 .. Len(Split(md, "\n")) :
      LET line == Split(md, "\n")[k]
          text == SubSeq(line, 4, Len(line))
      IN  HasItemText(line, Chars("## ")) =>
            Contains(html, Chars("<h2 id=\"") \o Slug(text) \o Chars("\">")
                             \o text \o Chars("</h2>"))

\* C9: the batch never ends on a failure of one file: it is not left with
\* files of the list unprocessed.
C9_BatchOutlivesFileFailure ==
  ~(mainPc = "raised" /\ fileIdx < NumFiles)

\* C10: in the fragment returned the paragraph tags are balanced: after a <p>
\* the next paragraph tag is a </p>, and before a </p> the last paragraph tag
\* is a <p>.
C10_ParagraphTagsBalanced ==
  pc = "done" =>
    \A k \in PTags(html) :
      LET before == {j \in PTags(html) : j < k}
          after == {j \in PTags(html) : j > k}
      IN  IF At(html, k, P_OPEN)
          THEN after # {} /\ At(html, Min(after), P_CLOSE)
          ELSE /\ before # {}
               /\ At(html, CHOOSE j \in before : \A o \in before : o <= j, P_OPEN)

====
